---- MODULE Spec2Model ----
\* State machine of talias (src/main.go): the menu navigation stack, the
\* search mode and the command emitter, driven by key events.
\*
\* Strings are sequences of one-character strings, so that ToLower, Contains
\* and ReplaceAll are computed character by character.  The info box text and
\* the grid layout are display only and are not part of the state.
\*
\* One action is one key event, handled to the end by the single event loop:
\* first the global input capture (main.go:326-367), then the input capture
\* and the default handler of the focused widget.  What the widgets of the UI
\* library do by default is modelled as follows: list.Clear() puts the
\* selection at item 0 and AddItem leaves it there; Up and Down on the list
\* wrap around; the input field edits its text at the end and runs the changed
\* handler on every change of the text, SetText included.  In search mode the
\* focus is on searchInput: only switchToSearchMode and switchToNormalMode
\* move the focus (main.go:279, 320).
EXTENDS Integers, Sequences, FiniteSets, TLC

VARIABLES
    rootOptions,     \* main.go:120  the parsed configuration
    home,            \* main.go:113  the value os.UserHomeDir() resolves to
    currentOptions,  \* main.go:127
    menuStack,       \* main.go:128
    currentTitle,    \* main.go:129
    searchMode,      \* main.go:132
    searchQuery,     \* main.go:133
    searchResults,   \* main.go:134
    allOptions,      \* main.go:135
    inputText,       \* main.go:142  text of the searchInput widget
    listItems,       \* main.go:138  the option captured by each list item
    listCur,         \* main.go:138  list.GetCurrentItem()
    focus,           \* main.go:375  the widget that has the focus
    running,         \* main.go:375  FALSE once app.Stop() was called
    stdout,          \* main.go:105  the strings printed so far
    ev,              \* history: the last event handled
    pre,             \* history: the state before the last event
    ev2,             \* history: the event before the last one
    pre2             \* history: the state before that event

vars == <<rootOptions, home, currentOptions, menuStack, currentTitle,
          searchMode, searchQuery, searchResults, allOptions, inputText,
          listItems, listCur, focus, running, stdout, ev, pre, ev2, pre2>>

-----------------------------------------------------------------------------
\* Bounds

\* longest text the search input holds in the model
MaxQueryLen == 2

\* largest number of nodes of a generated forest (SpecFlatten)
MaxNodes == 5

\* longest command of a generated configuration (SpecExpand)
MaxCmdLen == 4

-----------------------------------------------------------------------------
\* Option (main.go:14-19) and the configurations explored

Option(t, d, c, ch) == [title |-> t, details |-> d, command |-> c, children |-> ch]

MainMenu == <<"M", "a", "i", "n", " ", "M", "e", "n", "u">>

\* leaves
LeafAb   == Option(<<"A", "b">>, <<>>, <<"~", "/", "a", "~", "/">>, <<>>)
LeafB    == Option(<<"B">>, <<"a">>, <<"c">>, <<>>)
LeafNone == Option(<<"a">>, <<"b">>, <<>>, <<>>)
LeafaB   == Option(<<"a", "B">>, <<>>, <<"c">>, <<>>)

\* groups; GroupK and Group2 carry a command as well as children
GroupK == Option(<<"a">>, <<>>, <<"c">>, <<LeafB>>)
GroupH == Option(<<"b">>, <<>>, <<>>, <<LeafAb, GroupK>>)
Group1 == Option(<<"a", "b">>, <<>>, <<>>, <<GroupH>>)
GroupH2 == Option(<<"b">>, <<>>, <<>>, <<LeafNone>>)
Group2 == Option(<<"B">>, <<>>, <<"c">>, <<GroupH2>>)

RootRich  == <<Group1, Group2, LeafaB>>
RootFlat  == <<LeafAb, LeafNone, LeafaB>>
RootEmpty == <<>>

Roots == {RootRich, RootFlat, RootEmpty}

\* values of $HOME with which main starts (main.go:113-117)
Homes == {<<"/", "h">>, <<"/">>, <<"/", "h", "/">>}

\* the empty $HOME, for which os.UserHomeDir() returns an error (main.go:90-93)
NoHome == <<>>

\* characters the keyboard can send as rune keys, besides 'q' and '?'
TypeChars == {"a", "A", "b"}

-----------------------------------------------------------------------------
\* Pure functions

\* main.go:38-48
containsOption(options, target) ==
    IF Len(options) # Len(target)
    THEN FALSE
    ELSE \A i \in 1..Len(options) : options[i].title = target[i].title

\* flattenOptions that keeps a parent when it carries a command
RECURSIVE flattenOptions_KeepCommandGroups(_)
flattenOptions_KeepCommandGroups(options) ==
    IF options = <<>>
    THEN <<>>
    ELSE LET opt == Head(options)
             first == IF Len(opt.children) > 0 /\ Len(opt.command) = 0
                      THEN flattenOptions_KeepCommandGroups(opt.children)
                      ELSE IF Len(opt.children) > 0
                           THEN <<opt>> \o flattenOptions_KeepCommandGroups(opt.children)
                           ELSE <<opt>>
         IN  first \o flattenOptions_KeepCommandGroups(Tail(options))

\* main.go:50-62
RECURSIVE flattenOptions(_)
flattenOptions(options) ==
    IF options = <<>>
    THEN <<>>
    ELSE LET opt == Head(options)
             first == IF Len(opt.children) > 0
                      THEN flattenOptions(opt.children)
                      ELSE <<opt>>
         IN  first \o flattenOptions(Tail(options))

\* strings.ToLower on the model's characters (main.go:70, 73)
LowerChar(c) ==
    CASE c = "A" -> "a"
      [] c = "B" -> "b"
      [] OTHER   -> c

ToLower(s) == [i \in 1..Len(s) |-> LowerChar(s[i])]

\* strings.Contains (main.go:76, 86)
Contains(s, sub) ==
    \E i \in 0..(Len(s) - Len(sub)) :
        \A j \in 1..Len(sub) : s[i + j] = sub[j]

\* TitleMatches that also searches the details
TitleMatches_OrDetails(opt, queryLower) ==
    \/ Contains(ToLower(opt.title), queryLower)
    \/ Contains(ToLower(opt.details), queryLower)

\* the loop body's test of fuzzySearch (main.go:73-78)
TitleMatches(opt, queryLower) == Contains(ToLower(opt.title), queryLower)

RECURSIVE FilterLoop(_, _)
FilterLoop(queryLower, options) ==
    IF options = <<>>
    THEN <<>>
    ELSE LET opt == Head(options)
             rest == FilterLoop(queryLower, Tail(options))
         IN  IF TitleMatches(opt, queryLower) THEN <<opt>> \o rest ELSE rest

\* main.go:64-82
fuzzySearch(query, options) ==
    IF query = <<>>
    THEN options
    ELSE FilterLoop(ToLower(query), options)

\* filepath.Join(homeDir, "") (main.go:95): the cleaned path; the model's
\* home directories hold no "." or ".." element
RECURSIVE CleanPath(_)
CleanPath(p) ==
    IF Len(p) <= 1
    THEN p
    ELSE IF p[1] = "/" /\ p[2] = "/"
         THEN CleanPath(Tail(p))
         ELSE IF Len(p) = 2 /\ p[2] = "/"
              THEN <<p[1]>>
              ELSE <<p[1]>> \o CleanPath(Tail(p))

\* ReplaceTildeSlash that stops after the first occurrence
ReplaceTildeSlash_FirstOnly(s, rep) ==
    IF \E i \in 1..(Len(s) - 1) : s[i] = "~" /\ s[i + 1] = "/"
    THEN LET i == CHOOSE k \in 1..(Len(s) - 1) :
                      /\ s[k] = "~" /\ s[k + 1] = "/"
                      /\ \A j \in 1..(k - 1) : ~(s[j] = "~" /\ s[j + 1] = "/")
         IN  SubSeq(s, 1, i - 1) \o rep \o SubSeq(s, i + 2, Len(s))
    ELSE s

\* strings.ReplaceAll(command, "~/", rep) (main.go:95)
RECURSIVE ReplaceTildeSlash(_, _)
ReplaceTildeSlash(s, rep) ==
    IF s = <<>>
    THEN <<>>
    ELSE IF Len(s) >= 2 /\ s[1] = "~" /\ s[2] = "/"
         THEN rep \o ReplaceTildeSlash(SubSeq(s, 3, Len(s)), rep)
         ELSE <<s[1]>> \o ReplaceTildeSlash(Tail(s), rep)

\* main.go:85-96; os.UserHomeDir() fails when $HOME is empty
expandCommand(command) ==
    IF ~Contains(command, <<"~", "/">>)
    THEN command
    ELSE IF home = NoHome
         THEN command
         ELSE ReplaceTildeSlash(command, CleanPath(home) \o <<"/">>)

-----------------------------------------------------------------------------
\* History

Snap == [cur |-> currentOptions, stack |-> menuStack, title |-> currentTitle,
         mode |-> searchMode, query |-> searchQuery, results |-> searchResults,
         text |-> inputText, items |-> listItems, item |-> listCur,
         focus |-> focus, running |-> running, out |-> stdout]

Hist(e) ==
    /\ ev' = e
    /\ pre' = Snap
    /\ ev2' = ev
    /\ pre2' = [cur |-> pre.cur, stack |-> pre.stack, title |-> pre.title,
                mode |-> pre.mode]

-----------------------------------------------------------------------------
\* Initial state: main.go:110-135, the first populateList (main.go:234) and
\* SetRoot(grid, true).SetFocus(list) (main.go:375)

Init ==
    /\ rootOptions \in Roots
    /\ home \in Homes
    /\ currentOptions = rootOptions
    /\ menuStack = <<>>
    /\ currentTitle = MainMenu
    /\ searchMode = FALSE
    /\ searchQuery = <<>>
    /\ searchResults = <<>>
    /\ allOptions = flattenOptions(rootOptions)
    /\ inputText = <<>>
    /\ listItems = rootOptions
    /\ listCur = 0
    /\ focus = "list"
    /\ running = TRUE
    /\ stdout = <<>>
    /\ ev = "init"
    /\ pre = [cur |-> rootOptions, stack |-> <<>>, title |-> MainMenu,
              mode |-> FALSE, query |-> <<>>, results |-> <<>>,
              text |-> <<>>, items |-> rootOptions, item |-> 0,
              focus |-> "list", running |-> TRUE, out |-> <<>>]
    /\ ev2 = "init"
    /\ pre2 = [cur |-> rootOptions, stack |-> <<>>, title |-> MainMenu,
               mode |-> FALSE]

-----------------------------------------------------------------------------
\* Handlers

navVars == <<currentOptions, menuStack, currentTitle>>
searchVars == <<searchMode, searchQuery, searchResults, inputText>>
constVars == <<rootOptions, home, allOptions>>

\* executeCommand without the app.Stop()
executeCommand_NoStop(option) ==
    IF Len(option.command) = 0
    THEN UNCHANGED <<stdout, running>>
    ELSE /\ stdout' = Append(stdout, expandCommand(option.command))
         /\ running' = running

\* executeCommand without the test for an empty command
executeCommand_NoGuard(option) ==
    /\ stdout' = Append(stdout, expandCommand(option.command))
    /\ running' = FALSE

\* main.go:99-107
executeCommand(option) ==
    IF Len(option.command) = 0
    THEN UNCHANGED <<stdout, running>>
    ELSE /\ stdout' = Append(stdout, expandCommand(option.command))
         /\ running' = FALSE

\* PushMenu that pushes the view it opens instead of the view it leaves
PushMenu_PushChildren(option) ==
    /\ menuStack' = Append(menuStack, option.children)
    /\ currentOptions' = option.children
    /\ currentTitle' = option.title
    /\ listItems' = option.children
    /\ listCur' = 0
    /\ UNCHANGED <<stdout, running>>

\* main.go:200-207: the branch of the item callback for an option with children
PushMenu(option) ==
    /\ menuStack' = Append(menuStack, currentOptions)
    /\ currentOptions' = option.children
    /\ currentTitle' = option.title
    /\ listItems' = option.children
    /\ listCur' = 0
    /\ UNCHANGED <<stdout, running>>

\* ActivateOption with the command tested before the children
ActivateOption_CommandFirst(option) ==
    IF Len(option.command) > 0
    THEN /\ executeCommand(option)
         /\ UNCHANGED <<navVars, listItems, listCur>>
    ELSE IF Len(option.children) > 0
         THEN PushMenu(option)
         ELSE UNCHANGED <<navVars, listItems, listCur, stdout, running>>

\* main.go:197-212: the callback of a list item built by populateList
ActivateOption(option) ==
    IF Len(option.children) > 0
    THEN PushMenu(option)
    ELSE /\ executeCommand(option)
         /\ UNCHANGED <<navVars, listItems, listCur>>

\* Enter on the list in normal mode: the selected item's callback
ListKeyEnter ==
    /\ running
    /\ focus = "list"
    /\ listCur < Len(listItems)
    /\ ActivateOption(listItems[listCur + 1])
    /\ UNCHANGED <<constVars, searchVars, focus>>
    /\ Hist("Enter")

\* Down and Up on the list in normal mode (the list wraps around)
ListKeyDown ==
    /\ running
    /\ focus = "list"
    /\ Len(listItems) > 0
    /\ listCur' = IF listCur + 1 >= Len(listItems) THEN 0 ELSE listCur + 1
    /\ UNCHANGED <<constVars, navVars, searchVars, listItems, focus, running, stdout>>
    /\ Hist("Down")

ListKeyUp ==
    /\ running
    /\ focus = "list"
    /\ Len(listItems) > 0
    /\ listCur' = IF listCur - 1 < 0 THEN Len(listItems) - 1 ELSE listCur - 1
    /\ UNCHANGED <<constVars, navVars, searchVars, listItems, focus, running, stdout>>
    /\ Hist("Up")

\* a rune other than 'q' and '?' on the list in normal mode: no item has a
\* shortcut (main.go:197), so nothing happens
ListKeyRune ==
    /\ running
    /\ focus = "list"
    /\ Hist("Rune")
    /\ UNCHANGED <<constVars, navVars, searchVars, listItems, listCur, focus,
                   running, stdout>>

\* main.go:218-231 with the query given
populateSearchResults(query) ==
    /\ searchResults' = fuzzySearch(query, allOptions)
    /\ listItems' = searchResults'
    /\ listCur' = 0

\* searchInputChanged that stores the query and leaves the results alone
searchInputChanged_NoRefresh(text) ==
    /\ searchQuery' = text
    /\ UNCHANGED <<searchResults, listItems, listCur>>

\* main.go:250-253: the searchInput changed handler
searchInputChanged(text) ==
    /\ searchQuery' = text
    /\ populateSearchResults(text)

\* switchToSearchMode that neither clears the input nor refreshes the results
switchToSearchMode_KeepOld ==
    /\ searchMode' = TRUE
    /\ searchQuery' = <<>>
    /\ listItems' = searchResults
    /\ listCur' = 0
    /\ focus' = "searchInput"
    /\ UNCHANGED <<navVars, searchResults, inputText, running, stdout>>

\* main.go:267-305; SetText("") runs the changed handler, then
\* populateSearchResults runs once more with the same query
switchToSearchMode ==
    /\ searchMode' = TRUE
    /\ searchQuery' = <<>>
    /\ inputText' = <<>>
    /\ populateSearchResults(<<>>)
    /\ focus' = "searchInput"
    /\ UNCHANGED <<navVars, running, stdout>>

\* switchToNormalMode that also returns the navigation to the root
switchToNormalMode_ResetNav ==
    /\ searchMode' = FALSE
    /\ searchQuery' = <<>>
    /\ focus' = "list"
    /\ currentOptions' = rootOptions
    /\ menuStack' = <<>>
    /\ currentTitle' = MainMenu
    /\ listItems' = rootOptions
    /\ listCur' = 0
    /\ UNCHANGED <<searchResults, inputText, running, stdout>>

\* main.go:308-323
switchToNormalMode ==
    /\ searchMode' = FALSE
    /\ searchQuery' = <<>>
    /\ focus' = "list"
    /\ listItems' = currentOptions
    /\ listCur' = 0
    /\ UNCHANGED <<navVars, searchResults, inputText, running, stdout>>

\* ParentTitle without the break: the last matching root option wins
ParentTitle_LastMatch(target) ==
    LET hits == {i \in 1..Len(rootOptions) :
                    containsOption(rootOptions[i].children, target)}
    IN  IF hits = {}
        THEN MainMenu
        ELSE rootOptions[CHOOSE i \in hits : \A j \in hits : i >= j].title

\* main.go:350-356
ParentTitle(target) ==
    LET hits == {i \in 1..Len(rootOptions) :
                    containsOption(rootOptions[i].children, target)}
    IN  IF hits = {}
        THEN MainMenu
        ELSE rootOptions[CHOOSE i \in hits : \A j \in hits : i <= j].title

\* Back that restores the oldest stack entry instead of the newest
Back_OldestEntry ==
    /\ currentOptions' = menuStack[1]
    /\ menuStack' = SubSeq(menuStack, 1, Len(menuStack) - 1)
    /\ currentTitle' = IF Len(menuStack') = 0
                       THEN MainMenu
                       ELSE ParentTitle(currentOptions')
    /\ listItems' = currentOptions'
    /\ listCur' = 0
    /\ UNCHANGED <<searchVars, focus, running, stdout>>

\* Back that shows the previous view and leaves it on the stack
Back_KeepStack ==
    /\ currentOptions' = menuStack[Len(menuStack)]
    /\ menuStack' = menuStack
    /\ currentTitle' = ParentTitle(currentOptions')
    /\ listItems' = currentOptions'
    /\ listCur' = 0
    /\ UNCHANGED <<searchVars, focus, running, stdout>>

\* main.go:343-359
Back ==
    /\ currentOptions' = menuStack[Len(menuStack)]
    /\ menuStack' = SubSeq(menuStack, 1, Len(menuStack) - 1)
    /\ currentTitle' = IF Len(menuStack') = 0
                       THEN MainMenu
                       ELSE ParentTitle(currentOptions')
    /\ listItems' = currentOptions'
    /\ listCur' = 0
    /\ UNCHANGED <<searchVars, focus, running, stdout>>

\* QuitAtTop without the app.Stop()
QuitAtTop_NoStop ==
    /\ running' = running
    /\ UNCHANGED <<navVars, searchVars, listItems, listCur, focus, stdout>>

\* main.go:360-363
QuitAtTop ==
    /\ running' = FALSE
    /\ UNCHANGED <<navVars, searchVars, listItems, listCur, focus, stdout>>

\* KeyQ that lets the search input have the rune in search mode
KeyQ_NormalModeOnly ==
    /\ running
    /\ IF searchMode
       THEN /\ inputText' = Append(inputText, "q")
            /\ searchInputChanged(inputText')
            /\ UNCHANGED <<searchMode, running>>
       ELSE /\ running' = FALSE
            /\ UNCHANGED <<searchVars, listItems, listCur>>
    /\ UNCHANGED <<constVars, navVars, focus, stdout>>
    /\ Hist("q")

\* main.go:329-332
KeyQ ==
    /\ running
    /\ running' = FALSE
    /\ UNCHANGED <<constVars, navVars, searchVars, listItems, listCur, focus, stdout>>
    /\ Hist("q")

\* main.go:334-337
KeyQuestion ==
    /\ running
    /\ switchToSearchMode
    /\ UNCHANGED constVars
    /\ Hist("?")

\* main.go:339-365
KeyEscape ==
    /\ running
    /\ IF searchMode
       THEN switchToNormalMode
       ELSE IF Len(menuStack) > 0
            THEN Back
            ELSE QuitAtTop
    /\ UNCHANGED constVars
    /\ Hist("Escape")

\* main.go:150-156
SearchKeyUp ==
    /\ running
    /\ focus = "searchInput"
    /\ listCur' = IF listCur > 0 THEN listCur - 1 ELSE listCur
    /\ UNCHANGED <<constVars, navVars, searchVars, listItems, focus, running, stdout>>
    /\ Hist("Up")

\* SearchKeyDown that may step past the last result
SearchKeyDown_OffByOne ==
    /\ running
    /\ focus = "searchInput"
    /\ listCur' = IF listCur < Len(searchResults) THEN listCur + 1 ELSE listCur
    /\ UNCHANGED <<constVars, navVars, searchVars, listItems, focus, running, stdout>>
    /\ Hist("Down")

\* main.go:157-163
SearchKeyDown ==
    /\ running
    /\ focus = "searchInput"
    /\ listCur' = IF listCur < Len(searchResults) - 1 THEN listCur + 1 ELSE listCur
    /\ UNCHANGED <<constVars, navVars, searchVars, listItems, focus, running, stdout>>
    /\ Hist("Down")

\* main.go:165-173
SearchKeyEnter ==
    /\ running
    /\ focus = "searchInput"
    /\ IF Len(searchResults) > 0 /\ listCur >= 0 /\ listCur < Len(searchResults)
       THEN executeCommand(searchResults[listCur + 1])
       ELSE UNCHANGED <<stdout, running>>
    /\ UNCHANGED <<constVars, navVars, searchVars, listItems, listCur, focus>>
    /\ Hist("Enter")

\* main.go:174-175, 250-253: a rune reaches the input field, which appends it
\* and runs the changed handler
SearchKeyRune ==
    /\ running
    /\ focus = "searchInput"
    /\ Len(inputText) < MaxQueryLen
    /\ \E ch \in TypeChars :
        /\ inputText' = Append(inputText, ch)
        /\ searchInputChanged(inputText')
    /\ UNCHANGED <<constVars, navVars, searchMode, focus, running, stdout>>
    /\ Hist("Rune")

\* main.go:174-175, 250-253: Backspace reaches the input field
SearchKeyBackspace ==
    /\ running
    /\ focus = "searchInput"
    /\ Len(inputText) > 0
    /\ inputText' = SubSeq(inputText, 1, Len(inputText) - 1)
    /\ searchInputChanged(inputText')
    /\ UNCHANGED <<constVars, navVars, searchMode, focus, running, stdout>>
    /\ Hist("Backspace")

Next ==
    \/ KeyQ
    \/ KeyQuestion
    \/ KeyEscape
    \/ ListKeyEnter
    \/ ListKeyDown
    \/ ListKeyUp
    \/ ListKeyRune
    \/ SearchKeyUp
    \/ SearchKeyDown
    \/ SearchKeyEnter
    \/ SearchKeyRune
    \/ SearchKeyBackspace

Spec == Init /\ [][Next]_vars

-----------------------------------------------------------------------------
\* flattenOptions on its own: every forest of at most MaxNodes options, each
\* option either without a command or with one

Kinds == {[title |-> <<"a">>, command |-> <<>>],
          [title |-> <<"b">>, command |-> <<"c">>]}

RECURSIVE ForestsOfSize(_)
ForestsOfSize(n) ==
    IF n = 0
    THEN {<<>>}
    ELSE UNION { { <<Option(k.title, <<>>, k.command, ch)>> \o rest :
                       k \in Kinds,
                       ch \in ForestsOfSize(m - 1),
                       rest \in ForestsOfSize(n - m) } : m \in 1..n }

Forests == UNION {ForestsOfSize(n) : n \in 0..MaxNodes}

\* main.go:120-134: the configuration is loaded, the index not yet built
InitFlatten ==
    /\ rootOptions \in Forests
    /\ home = <<"/", "h">>
    /\ currentOptions = rootOptions
    /\ menuStack = <<>>
    /\ currentTitle = MainMenu
    /\ searchMode = FALSE
    /\ searchQuery = <<>>
    /\ searchResults = <<>>
    /\ allOptions = <<>>
    /\ inputText = <<>>
    /\ listItems = <<>>
    /\ listCur = 0
    /\ focus = "list"
    /\ running = TRUE
    /\ stdout = <<>>
    /\ ev = "load"
    /\ pre = <<>>
    /\ ev2 = "load"
    /\ pre2 = <<>>

\* main.go:135
CallFlatten ==
    /\ ev = "load"
    /\ allOptions' = flattenOptions(rootOptions)
    /\ ev' = "flatten"
    /\ UNCHANGED <<rootOptions, home, navVars, searchVars, listItems, listCur,
                   focus, running, stdout, pre, ev2, pre2>>

NextFlatten == CallFlatten

SpecFlatten == InitFlatten /\ [][NextFlatten]_vars

-----------------------------------------------------------------------------
\* expandCommand on its own: a configuration of one option whose command is
\* any text of at most MaxCmdLen characters, under every value of $HOME, the
\* empty one included; the option is activated from the list

CmdChars == {"~", "/", "a"}

Commands == UNION {[1..n -> CmdChars] : n \in 1..MaxCmdLen}

InitExpand ==
    /\ \E c \in Commands : rootOptions = <<Option(<<"a">>, <<>>, c, <<>>)>>
    /\ home \in Homes \cup {NoHome}
    /\ currentOptions = rootOptions
    /\ menuStack = <<>>
    /\ currentTitle = MainMenu
    /\ searchMode = FALSE
    /\ searchQuery = <<>>
    /\ searchResults = <<>>
    /\ allOptions = flattenOptions(rootOptions)
    /\ inputText = <<>>
    /\ listItems = rootOptions
    /\ listCur = 0
    /\ focus = "list"
    /\ running = TRUE
    /\ stdout = <<>>
    /\ ev = "init"
    /\ pre = [cur |-> rootOptions, stack |-> <<>>, title |-> MainMenu,
              mode |-> FALSE, query |-> <<>>, results |-> <<>>,
              text |-> <<>>, items |-> rootOptions, item |-> 0,
              focus |-> "list", running |-> TRUE, out |-> <<>>]
    /\ ev2 = "init"
    /\ pre2 = [cur |-> rootOptions, stack |-> <<>>, title |-> MainMenu,
               mode |-> FALSE]

NextExpand == ListKeyEnter

SpecExpand == InitExpand /\ [][NextExpand]_vars

-----------------------------------------------------------------------------
\* Claims

\* the node of `current` that the list had selected before the last event
PreNode == pre.cur[pre.item + 1]

\* the last event activated, in normal mode, a node with children
ActivatedGroup ==
    /\ ev = "Enter"
    /\ ~pre.mode
    /\ pre.item < Len(pre.cur)
    /\ Len(PreNode.children) > 0

\* C1: activating in normal mode a node with a non-empty children sequence,
\* with or without a command, appends the previous current as the one new last
\* stack entry, shows the node's children under the node's title, prints
\* nothing and keeps the program running.
C1_ActivateGroupPushes ==
    ActivatedGroup =>
        /\ menuStack = Append(pre.stack, pre.cur)
        /\ Len(menuStack) = Len(pre.stack) + 1
        /\ currentOptions = PreNode.children
        /\ currentTitle = PreNode.title
        /\ stdout = pre.out
        /\ running

C1_Witness ==
    /\ ActivatedGroup
    /\ Len(PreNode.command) > 0
    /\ Len(pre.stack) > 0

\* C2: activating a group in normal mode and then pressing Escape restores
\* current and the stack to their values before the activation.
C2_BackUndoesPush ==
    ( /\ ev = "Escape"
      /\ ~pre.mode
      /\ ev2 = "Enter"
      /\ ~pre2.mode
      /\ Len(pre.stack) = Len(pre2.stack) + 1 ) =>
        /\ currentOptions = pre2.cur
        /\ menuStack = pre2.stack

C2_Witness ==
    /\ ev = "Escape"
    /\ ~pre.mode
    /\ ev2 = "Enter"
    /\ ~pre2.mode
    /\ Len(pre.stack) = Len(pre2.stack) + 1
    /\ Len(pre2.stack) > 0
    /\ currentOptions = pre2.cur

\* C3: Escape in normal mode with an empty stack stops the program and leaves
\* current, the stack, the title and standard output as they were.
C3_BackAtRootQuits ==
    (ev = "Escape" /\ ~pre.mode /\ pre.stack = <<>>) =>
        /\ ~running
        /\ currentOptions = pre.cur
        /\ menuStack = pre.stack
        /\ currentTitle = pre.title
        /\ stdout = pre.out

C3_Witness ==
    /\ ev = "Escape"
    /\ ~pre.mode
    /\ pre.stack = <<>>
    /\ ~running
    /\ ev2 = "Escape"
    /\ Len(pre2.stack) = 1

\* the children of root option i have the length and the titles of target
SameTitles(i, target) ==
    /\ Len(rootOptions[i].children) = Len(target)
    /\ \A k \in 1..Len(target) : rootOptions[i].children[k].title = target[k].title

\* C4: after Escape popped the stack, the title is "Main Menu" when the stack
\* is now empty; otherwise it is the title of the first root option whose
\* children have the length and, pairwise, the titles of the new current, and
\* "Main Menu" when no root option has.
C4_TitleAfterBack ==
    (ev = "Escape" /\ ~pre.mode /\ Len(pre.stack) > 0) =>
        IF menuStack = <<>>
        THEN currentTitle = MainMenu
        ELSE \/ /\ \A i \in 1..Len(rootOptions) : ~SameTitles(i, currentOptions)
                /\ currentTitle = MainMenu
             \/ \E i \in 1..Len(rootOptions) :
                    /\ SameTitles(i, currentOptions)
                    /\ \A j \in 1..(i - 1) : ~SameTitles(j, currentOptions)
                    /\ currentTitle = rootOptions[i].title

\* the view of a later root group, reached through it, under the title of an
\* earlier root group with the same children titles
C4_Witness ==
    /\ ev = "Escape"
    /\ ~pre.mode
    /\ Len(menuStack) > 0
    /\ \E i, j \in 1..Len(rootOptions) :
          /\ i < j
          /\ currentOptions = rootOptions[j].children
          /\ currentOptions # rootOptions[i].children
          /\ currentTitle = rootOptions[i].title
          /\ currentTitle # rootOptions[j].title

\* C5: no event handled on the way into, inside or out of search mode changes
\* current, the stack or the title; Escape in search mode returns to normal
\* mode and neither pops the stack nor stops the program.
C5_SearchKeepsNavigation ==
    /\ (ev # "init" /\ (pre.mode \/ searchMode)) =>
          /\ currentOptions = pre.cur
          /\ menuStack = pre.stack
          /\ currentTitle = pre.title
    /\ (ev = "Escape" /\ pre.mode) =>
          /\ ~searchMode
          /\ running
          /\ menuStack = pre.stack

C5_Witness ==
    /\ ev = "Escape"
    /\ pre.mode
    /\ ~searchMode
    /\ Len(menuStack) > 1
    /\ pre.query # <<>>

\* x and y are the same letter up to case
SameLetter(x, y) ==
    \/ x = y
    \/ {x, y} = {"a", "A"}
    \/ {x, y} = {"b", "B"}

\* query occurs in title as a substring, up to case
OccursIn(query, title) ==
    \E off \in 0..(Len(title) - Len(query)) :
        \A k \in 1..Len(query) : SameLetter(title[off + k], query[k])

QueryOccursInTitle(opt) == OccursIn(searchQuery, opt.title)

C7_EnterSearchResets ==
    (ev = "?" /\ ~pre.mode) =>
        /\ searchMode
        /\ searchQuery = <<>>
        /\ searchResults = allOptions

\* a re-entry after a session that ended with a query and filtered results
C7_Witness ==
    /\ ev = "?"
    /\ ~pre.mode
    /\ pre.text # <<>>
    /\ pre.results # allOptions
    /\ searchResults = allOptions

\* C8: '?' pressed in search mode does not enter search mode again: the
\* query, the results and the selection stay as they were.
C8_QuestionInSearchKeeps ==
    (ev = "?" /\ pre.mode) =>
        /\ searchQuery = pre.query
        /\ inputText = pre.text
        /\ searchResults = pre.results
        /\ listCur = pre.item

\* C9: 'q' can be pressed in every state of the running program; it stops
\* the program, reaches no other binding and prints nothing.
C9_QQuits ==
    /\ running => ENABLED KeyQ
    /\ ev = "q" =>
          /\ ~running
          /\ stdout = pre.out
          /\ searchQuery = pre.query
          /\ inputText = pre.text
          /\ searchMode = pre.mode
          /\ menuStack = pre.stack

C9_Witness ==
    /\ ev = "q"
    /\ ~running
    /\ pre.mode
    /\ pre.query # <<>>
    /\ Len(menuStack) > 0

\* the positions of the options of a forest, as index paths from the root
RECURSIVE PathsOf(_)
PathsOf(forest) ==
    UNION { {<<i>>} \cup {<<i>> \o p : p \in PathsOf(forest[i].children)} :
                i \in 1..Len(forest) }

RECURSIVE NodeAt(_, _)
NodeAt(forest, p) ==
    IF Len(p) = 1
    THEN forest[p[1]]
    ELSE NodeAt(forest[p[1]].children, Tail(p))

LeafPaths(forest) == {p \in PathsOf(forest) : NodeAt(forest, p).children = <<>>}

\* p comes before q in depth-first document order (neither a prefix of the other)
Before(p, q) ==
    \E k \in 1..Len(p) :
        /\ k <= Len(q)
        /\ \A j \in 1..(k - 1) : p[j] = q[j]
        /\ p[k] < q[k]

Rank(forest, p) == 1 + Cardinality({q \in LeafPaths(forest) : Before(q, p)})

\* C10: the flattened index holds every option without children once, at its
\* rank in depth-first document order, and no option with children, also when
\* that option carries a command.
C10_FlattenIsLeavesInOrder ==
    ev = "flatten" =>
        /\ Len(allOptions) = Cardinality(LeafPaths(rootOptions))
        /\ \A p \in LeafPaths(rootOptions) :
              allOptions[Rank(rootOptions, p)] = NodeAt(rootOptions, p)
        /\ \A i \in 1..Len(allOptions) : allOptions[i].children = <<>>

\* a nested forest with a parent that carries a command and several leaves
C10_Witness ==
    /\ ev = "flatten"
    /\ Len(allOptions) >= 2
    /\ \E p \in PathsOf(rootOptions) :
          /\ Len(p) >= 2
          /\ Len(NodeAt(rootOptions, p).children) > 0
          /\ Len(NodeAt(rootOptions, p).command) > 0
    /\ \E p \in LeafPaths(rootOptions) : Len(p) >= 3


\* the option that Enter acted on: the selected search result in search mode,
\* the selected member of current in normal mode
PreHasSelection ==
    pre.item < Len(IF pre.mode THEN pre.results ELSE pre.cur)

PreSelected ==
    IF pre.mode THEN pre.results[pre.item + 1] ELSE pre.cur[pre.item + 1]

\* C11: standard output is written at most once; a write happens only in the
\* step that activates an option without children and with a command, chosen
\* on the list in normal mode or by Enter on the selected search result; the
\* text is the expansion of that option's command; the same step stops the
\* program.
C11_OutputOnceAndStops ==
    /\ Len(stdout) <= 1
    /\ stdout # <<>> => ~running
    /\ stdout # pre.out =>
          /\ ev = "Enter"
          /\ pre.out = <<>>
          /\ PreHasSelection
          /\ PreSelected.children = <<>>
          /\ PreSelected.command # <<>>
          /\ stdout = <<expandCommand(PreSelected.command)>>
          /\ ~running

\* a command printed from a search result, below the root
C11_Witness ==
    /\ stdout # <<>>
    /\ ev = "Enter"
    /\ pre.mode
    /\ pre.query # <<>>
    /\ Len(menuStack) > 0
    /\ stdout[1] # PreSelected.command

\* C14: activating an option with neither children nor a command, in normal
\* mode or as a search result, changes nothing: no output, the program runs
\* on, and current, the stack, the title, the mode, the query and the results
\* are as before.
C14_EmptyNodeIsNoOp ==
    ( /\ ev = "Enter"
      /\ PreHasSelection
      /\ PreSelected.children = <<>>
      /\ PreSelected.command = <<>> ) =>
        /\ stdout = pre.out
        /\ running
        /\ currentOptions = pre.cur
        /\ menuStack = pre.stack
        /\ currentTitle = pre.title
        /\ searchMode = pre.mode
        /\ searchQuery = pre.query
        /\ searchResults = pre.results

C14_Witness ==
    /\ ev = "Enter"
    /\ pre.mode
    /\ PreHasSelection
    /\ PreSelected.children = <<>>
    /\ PreSelected.command = <<>>
    /\ pre.query # <<>>
    /\ Len(menuStack) > 0
    /\ running

\* C15: in search mode with results, the selection is an index of the
\* results, whatever Up, Down and query changes came before; Up at index 0
\* and Down at the last index leave the selection where it is.
C15_SelectionInRange ==
    /\ (searchMode /\ searchResults # <<>>) =>
          (0 <= listCur /\ listCur <= Len(searchResults) - 1)
    /\ (ev = "Up" /\ pre.mode /\ pre.item = 0) => listCur = 0
    /\ (ev = "Down" /\ pre.mode /\ pre.results # <<>>
           /\ pre.item = Len(pre.results) - 1) => listCur = pre.item

\* a query change that left fewer results than the index selected before it
C15_Witness ==
    /\ searchMode
    /\ ev = "Rune"
    /\ pre.mode
    /\ searchResults # <<>>
    /\ pre.item > Len(searchResults) - 1


\* the positions at which "~/" starts in s
Occ(s) == {i \in 1..(Len(s) - 1) : s[i] = "~" /\ s[i + 1] = "/"}

\* what position i of s contributes when every "~/" becomes rep
Piece(s, rep, i) ==
    IF i \in Occ(s)
    THEN rep
    ELSE IF (i - 1) \in Occ(s) THEN <<>> ELSE <<s[i]>>

RECURSIVE Pieces(_, _, _)
Pieces(s, rep, i) ==
    IF i > Len(s) THEN <<>> ELSE Piece(s, rep, i) \o Pieces(s, rep, i + 1)

\* the home directory without a trailing separator, the root excepted
Trimmed(h) ==
    IF Len(h) > 1 /\ h[Len(h)] = "/" THEN SubSeq(h, 1, Len(h) - 1) ELSE h

\* the command of the one option of the configuration
TheCommand == rootOptions[1].command

\* C12 as stated: every "~/" of the command becomes the value of $HOME
\* followed by one separator; a command without "~/" and a command expanded
\* without a home directory are printed unchanged.
C12_ExpandWithHomeAsGiven ==
    (ev = "Enter" /\ stdout # <<>>) =>
        stdout = << IF home = NoHome
                    THEN TheCommand
                    ELSE Pieces(TheCommand, home \o <<"/">>, 1) >>

\* C12 amended: every "~/" of the command, wherever it is, becomes the home
\* directory without its trailing separator (the path filepath.Join returns)
\* followed by one separator; a command without "~/" and a command expanded
\* without a home directory are printed unchanged.
C12_ExpandWithCleanedHome ==
    (ev = "Enter" /\ stdout # <<>>) =>
        /\ stdout = << IF home = NoHome
                       THEN TheCommand
                       ELSE Pieces(TheCommand, Trimmed(home) \o <<"/">>, 1) >>
        /\ Occ(TheCommand) = {} => stdout = <<TheCommand>>
        /\ home = NoHome => stdout = <<TheCommand>>

\* two occurrences, the second not at the start, under a home directory
\* written with a trailing separator
C12_Witness ==
    /\ ev = "Enter"
    /\ stdout # <<>>
    /\ Cardinality(Occ(TheCommand)) = 2
    /\ home = <<"/", "h", "/">>
    /\ stdout[1] = <<"/", "h", "/", "/", "h", "/">>


\* C13 as stated: with an empty stack the title is "Main Menu"; with a
\* non-empty stack it is the title of an option, anywhere in the tree, whose
\* children are the current view.
C13_TitleNamesCurrentLevel ==
    IF menuStack = <<>>
    THEN currentTitle = MainMenu
    ELSE \E p \in PathsOf(rootOptions) :
            /\ NodeAt(rootOptions, p).children = currentOptions
            /\ NodeAt(rootOptions, p).title = currentTitle


\* In search mode the focus is on the search input, in normal mode on the
\* list: no key event reaches the list input capture of main.go:284-304.
FocusFollowsMode == focus = (IF searchMode THEN "searchInput" ELSE "list")

\* the options of the flattened index whose title contains text up to case
TitleFilter(text) ==
    SelectSeq(allOptions, LAMBDA opt : OccursIn(text, opt.title))

\* C17 as stated: in every reachable state, in either mode, the results are
\* the filter of the query over the flattened index.
C17_ResultsFollowQueryAlways == searchResults = TitleFilter(searchQuery)

\* C17 amended: in search mode the results are the filter of the query; in
\* normal mode the query is empty and the results are not recomputed: they
\* are empty before the first search and afterwards the filter of the text
\* the search input still holds.
C17_ResultsFollowQueryInSearch ==
    /\ searchMode =>
          /\ searchQuery = inputText
          /\ searchResults = TitleFilter(searchQuery)
    /\ ~searchMode =>
          /\ searchQuery = <<>>
          /\ \/ searchResults = <<>> /\ inputText = <<>>
             \/ searchResults = TitleFilter(inputText)

\* normal mode after a search left with a query: empty query, old results
C17_Witness ==
    /\ ~searchMode
    /\ ev = "Escape"
    /\ pre.mode
    /\ inputText # <<>>
    /\ searchResults # <<>>
    /\ searchResults # TitleFilter(searchQuery)

\* the options with children among the members of a view
OpensFrom(view, next) ==
    \E i \in 1..Len(view) :
        /\ Len(view[i].children) > 0
        /\ view[i].children = next

\* the largest number of views below the root that lie one inside the other
GroupDepth ==
    LET lens == {Len(p) : p \in {q \in PathsOf(rootOptions) :
                                    Len(NodeAt(rootOptions, q).children) > 0}}
    IN  IF lens = {} THEN 0 ELSE CHOOSE n \in lens : \A m \in lens : m <= n

\* C18: the stack is the path of views from the root to the current one:
\* empty with current the root; otherwise it starts with the root, each later
\* entry is the children of a group of the entry before, and current is the
\* children of a group of the last entry.  Its length is at most the depth
\* of the tree.
C18_StackIsAncestorPath ==
    /\ menuStack = <<>> => currentOptions = rootOptions
    /\ menuStack # <<>> =>
          /\ menuStack[1] = rootOptions
          /\ \A k \in 2..Len(menuStack) : OpensFrom(menuStack[k - 1], menuStack[k])
          /\ OpensFrom(menuStack[Len(menuStack)], currentOptions)
    /\ Len(menuStack) <= GroupDepth

\* the deepest view, reached again after going back once
C18_Witness ==
    /\ Len(menuStack) = 3
    /\ Len(menuStack) = GroupDepth
    /\ ev = "Enter"
    /\ ev2 = "Escape"

\* the number of Escape presses a state is away from the end of the program
EscapesLeft(stack, mode) == Len(stack) + 1 + (IF mode THEN 1 ELSE 0)

\* C19: Escape can be pressed in every state of the running program and
\* brings the program one press nearer to its end: from a state with
\* len(stack) + 1 presses left in normal mode, len(stack) + 2 in search mode,
\* the last press stops the program and every other press leaves one press
\* less; none of them prints.
C19_EscapeCountsDown ==
    /\ running => ENABLED KeyEscape
    /\ ev = "Escape" =>
          /\ stdout = pre.out
          /\ IF EscapesLeft(pre.stack, pre.mode) = 1
             THEN ~running
             ELSE /\ running
                  /\ EscapesLeft(menuStack, searchMode)
                        = EscapesLeft(pre.stack, pre.mode) - 1

\* three levels down and in search mode: the first of five presses
C19_Witness ==
    /\ ev = "Escape"
    /\ pre.mode
    /\ Len(pre.stack) = 3
    /\ EscapesLeft(pre.stack, pre.mode) = 5
    /\ EscapesLeft(menuStack, searchMode) = 4
    /\ running

\* C20: the query never holds 'q' or '?', the runes the global input capture
\* keeps for itself.
C20_QueryWithoutReservedRunes ==
    /\ \A i \in 1..Len(searchQuery) : searchQuery[i] \notin {"q", "?"}
    /\ \A i \in 1..Len(inputText) : inputText[i] \notin {"q", "?"}

\* '?' pressed while a query is being typed: consumed, not typed
C20_Witness ==
    /\ ev = "?"
    /\ pre.mode
    /\ pre.query # <<>>
    /\ Len(pre.query) = MaxQueryLen
    /\ searchQuery = <<>>
    /\ ev2 = "Rune"

====
